---- MODULE Spec2Model ----
(***************************************************************************)
(* A model of the task bot: the natural-language field extractor           *)
(* (src/nlp_utils.py), the message handlers and their dispatch, and the    *)
(* voice transcription pipeline (src/bot.py).                              *)
(*                                                                         *)
(* Text is modelled character by character: a string is a sequence of      *)
(* Unicode code points, so that splitting, trimming, lower-casing,         *)
(* substring tests and the regular expressions are computed as the code    *)
(* computes them.                                                          *)
(***************************************************************************)
EXTENDS Integers, Sequences, FiniteSets, TLC

VARIABLES
    text,      \* extractor: the input string of the call
    now,       \* the day (proleptic ordinal) datetime.now() falls on
    result,    \* extractor: what the call returned or raised ("pending" before)
    mention,   \* extractor: what extract_user_mention returned
    users,     \* the users table: a user's id is its place in the sequence
    tasks,     \* the tasks table: task id -> row
    inbox,     \* the message the dispatcher is about to handle, if any
    reply,     \* the answer sent by the last step
    voice,     \* the voice message being processed: where handle_voice stands
    disk,      \* the temporary files on disk
    ncalls,    \* how many times convert_voice_to_text was called
    creation,  \* the creation message being processed: where
               \* process_task_creation stands and whether its session is open
    again      \* extractor: the day and the results of a second call

-----------------------------------------------------------------------------
(* Characters and strings *)

Min(S) == CHOOSE x \in S : \A y \in S : x <= y

Max(S) == CHOOSE x \in S : \A y \in S : x >= y

\* str.isspace of one character (the code points Python treats as whitespace,
\* up to U+00A0)
IsSpace(c) == c \in {9, 10, 11, 12, 13, 28, 29, 30, 31, 32, 133, 160}

\* \d of the re module, on the ASCII digits
IsDigit(c) == c \in 48..57

\* the character class [А-Яа-я]: U+0410..U+044F (it leaves out Ё and ё)
IsCyrillic(c) == c \in 1040..1103

\* \w of the re module: letters, digits and the underscore
IsWord(c) ==
    \/ c \in 48..57 \/ c \in 65..90 \/ c \in 97..122 \/ c = 95
    \/ c \in 1040..1103 \/ c = 1025 \/ c = 1105

\* str.lower of one character: A-Z, А-Я and Ё have a lower-case form
LowerChar(c) ==
    IF c \in 65..90 \/ c \in 1040..1071 THEN c + 32
    ELSE IF c = 1025 THEN 1105
    ELSE c

\* str.lower left out: the text as it is
lower_missing(s) == s

\* str.lower
lower(s) == [i \in 1..Len(s) |-> LowerChar(s[i])]

\* str.strip(): leading and trailing whitespace removed
strip(s) ==
    LET keep == {i \in 1..Len(s) : ~IsSpace(s[i])}
    IN  IF keep = {} THEN <<>> ELSE SubSeq(s, Min(keep), Max(keep))

\* str.split(sep) for a one-character separator: always at least one part
RECURSIVE split(_, _)
split(s, sep) ==
    LET at == {i \in 1..Len(s) : s[i] = sep}
    IN  IF at = {} THEN <<s>>
        ELSE <<SubSeq(s, 1, Min(at) - 1)>> \o split(SubSeq(s, Min(at) + 1, Len(s)), sep)

\* sep.join(parts)
RECURSIVE join(_, _)
join(sep, parts) ==
    IF parts = <<>> THEN <<>>
    ELSE IF Len(parts) = 1 THEN parts[1]
    ELSE parts[1] \o <<sep>> \o join(sep, Tail(parts))

\* s[i:] starts with w
StartsAt(s, i, w) ==
    /\ i >= 1
    /\ i + Len(w) - 1 <= Len(s)
    /\ SubSeq(s, i, i + Len(w) - 1) = w

\* w in s
Contains(s, w) == \E i \in 1..(Len(s) - Len(w) + 1) : StartsAt(s, i, w)

\* the length of the run of digits of s that starts at position i
RECURSIVE DigitRun(_, _)
DigitRun(s, i) ==
    IF i <= Len(s) /\ IsDigit(s[i]) THEN 1 + DigitRun(s, i + 1) ELSE 0

-----------------------------------------------------------------------------
(* The regular expressions and phrase tables of extract_task_info *)

\* re_k: "к "
re_k ==
    <<1082, 32>>

\* re_do: "до "
re_do ==
    <<1076, 1086, 32>>

\* re_omu: "ому"
re_omu ==
    <<1086, 1084, 1091>>

\* re_ogo: "ого"
re_ogo ==
    <<1086, 1075, 1086>>

\* re_zavtra: "завтра"
re_zavtra ==
    <<1079, 1072, 1074, 1090, 1088, 1072>>

\* re_next_week: "на следующей неделе"
re_next_week ==
    <<1085, 1072, 32, 1089, 1083, 1077, 1076, 1091, 1102, 1097, 1077, 1081, 32, 1085, 1077, 1076,
      1077, 1083, 1077>>

\* re_cherez: "через "
re_cherez ==
    <<1095, 1077, 1088, 1077, 1079, 32>>

\* u_den: "день"
u_den ==
    <<1076, 1077, 1085, 1100>>

\* u_dnya: "дня"
u_dnya ==
    <<1076, 1085, 1103>>

\* u_dney: "дней"
u_dney ==
    <<1076, 1085, 1077, 1081>>

\* u_nedelyu: "неделю"
u_nedelyu ==
    <<1085, 1077, 1076, 1077, 1083, 1102>>

\* u_nedeli: "недели"
u_nedeli ==
    <<1085, 1077, 1076, 1077, 1083, 1080>>

\* u_nedel: "недель"
u_nedel ==
    <<1085, 1077, 1076, 1077, 1083, 1100>>

\* hi_srochno: "срочно"
hi_srochno ==
    <<1089, 1088, 1086, 1095, 1085, 1086>>

\* hi_srochnaya: "срочная"
hi_srochnaya ==
    <<1089, 1088, 1086, 1095, 1085, 1072, 1103>>

\* hi_vazhno: "важно"
hi_vazhno ==
    <<1074, 1072, 1078, 1085, 1086>>

\* hi_vazhnaya: "важная"
hi_vazhnaya ==
    <<1074, 1072, 1078, 1085, 1072, 1103>>

\* hi_vysokiy: "высокий приоритет"
hi_vysokiy ==
    <<1074, 1099, 1089, 1086, 1082, 1080, 1081, 32, 1087, 1088, 1080, 1086, 1088, 1080, 1090, 1077,
      1090>>

\* hi_prioritetnaya: "приоритетная"
hi_prioritetnaya ==
    <<1087, 1088, 1080, 1086, 1088, 1080, 1090, 1077, 1090, 1085, 1072, 1103>>

\* lo_nizkiy: "низкий приоритет"
lo_nizkiy ==
    <<1085, 1080, 1079, 1082, 1080, 1081, 32, 1087, 1088, 1080, 1086, 1088, 1080, 1090, 1077, 1090>>

\* lo_ne_srochno: "не срочно"
lo_ne_srochno ==
    <<1085, 1077, 32, 1089, 1088, 1086, 1095, 1085, 1086>>

\* lo_kogda: "когда будет время"
lo_kogda ==
    <<1082, 1086, 1075, 1076, 1072, 32, 1073, 1091, 1076, 1077, 1090, 32, 1074, 1088, 1077, 1084,
      1103>>

\* lo_ne_prioritetnaya: "не приоритетная"
lo_ne_prioritetnaya ==
    <<1085, 1077, 32, 1087, 1088, 1080, 1086, 1088, 1080, 1090, 1077, 1090, 1085, 1072, 1103>>

-----------------------------------------------------------------------------
(* Dates: a datetime is modelled by the ordinal of its day; every offset the
   extractor adds is a whole number of days. *)

\* date.max.toordinal(): 9999-12-31, the last day a datetime can hold
DateMaxOrdinal == 3652059

\* the largest magnitude of timedelta.days
TimedeltaMaxDays == 999999999

\* due_date = None
None == <<>>

\* no call made yet
Pending == [exc |-> "pending", value |-> <<>>]

\* a value returned
Ok(v) == [exc |-> "None", value |-> v]

\* an exception raised
Raise(e) == [exc |-> e, value |-> <<>>]

\* int(digits), exact up to TimedeltaMaxDays and TimedeltaMaxDays + 1 for
\* every larger value (all of which timedelta rejects alike)
RECURSIVE int(_)
int(digits) ==
    IF digits = <<>> THEN 0
    ELSE LET front == int(SubSeq(digits, 1, Len(digits) - 1))
             d == digits[Len(digits)] - 48
         IN  IF front >= (TimedeltaMaxDays + 1) \div 10
             THEN TimedeltaMaxDays + 1
             ELSE front * 10 + d

\* datetime.now() + timedelta(days=days), or timedelta(weeks=n) with
\* perweek = 7: OverflowError when the timedelta or the sum is out of range
now_plus(today, n, perweek) ==
    IF n > TimedeltaMaxDays \div perweek THEN Raise("OverflowError")
    ELSE IF today + n * perweek > DateMaxOrdinal THEN Raise("OverflowError")
    ELSE Ok(<<today + n * perweek>>)

-----------------------------------------------------------------------------
(* extract_task_info *)

\* r'<prep>(\d{1,2}(?:<suffix>)? [А-Яа-я]+)' matches s at position i; prep is
\* 'к ' or 'до ' and suffix 'ому' or 'ого'
MatchDayMonthAt(s, i, prep, suffix) ==
    /\ StartsAt(s, i, prep)
    /\ \E nd \in {1, 2} :
         /\ DigitRun(s, i + Len(prep)) >= nd
         /\ \E sfx \in {<<>>, suffix} :
              LET j == i + Len(prep) + nd + Len(sfx)
              IN  /\ StartsAt(s, i + Len(prep) + nd, sfx)
                  /\ j + 1 <= Len(s)
                  /\ s[j] = 32
                  /\ IsCyrillic(s[j + 1])

\* r'через (\d+) (?:u1|u2|u3)' matches s at position i
MatchCherezAt(s, i, units) ==
    /\ StartsAt(s, i, re_cherez)
    /\ LET j == i + Len(re_cherez)
           n == DigitRun(s, j)
       IN  /\ n >= 1
           /\ j + n <= Len(s)
           /\ s[j + n] = 32
           /\ \E u \in units : StartsAt(s, j + n + 1, u)

\* the match object of the leftmost match: group(1) of a 'через' pattern is
\* its run of digits
CherezMatch(s, units) ==
    LET at == {i \in 1..Len(s) : MatchCherezAt(s, i, units)}
    IN  IF at = {} THEN [found |-> FALSE, group |-> <<>>]
        ELSE LET j == Min(at) + Len(re_cherez)
             IN  [found |-> TRUE, group |-> SubSeq(s, j, j + DigitRun(s, j) - 1)]

\* the list date_patterns, in its order
date_patterns_zavtra_first ==
    <<"zavtra", "k_day_month", "do_day_month", "next_week", "cherez_days", "cherez_weeks">>

date_patterns ==
    <<"k_day_month", "do_day_month", "zavtra", "next_week", "cherez_days", "cherez_weeks">>

\* re.search(pattern, s)
re_search(pattern, s) ==
    CASE pattern = "k_day_month" ->
           [found |-> \E i \in 1..Len(s) : MatchDayMonthAt(s, i, re_k, re_omu),
            group |-> <<>>]
      [] pattern = "do_day_month" ->
           [found |-> \E i \in 1..Len(s) : MatchDayMonthAt(s, i, re_do, re_ogo),
            group |-> <<>>]
      [] pattern = "zavtra" -> [found |-> Contains(s, re_zavtra), group |-> <<>>]
      [] pattern = "next_week" -> [found |-> Contains(s, re_next_week), group |-> <<>>]
      [] pattern = "cherez_days" -> CherezMatch(s, {u_den, u_dnya, u_dney})
      [] pattern = "cherez_weeks" -> CherezMatch(s, {u_nedelyu, u_nedeli, u_nedel})

\* the loop over date_patterns: the index of the first pattern that matches the
\* lower-cased text, 0 when none does
FirstDatePattern(s) ==
    LET hits == {k \in 1..Len(date_patterns) : re_search(date_patterns[k], lower(s)).found}
    IN  IF hits = {} THEN 0 ELSE Min(hits)

\* the if/elif chain on the matching pattern; the two day+month patterns have
\* no branch and leave due_date None
due_date_for(pattern, match, today) ==
    CASE pattern = "zavtra" -> now_plus(today, 1, 1)
      [] pattern = "next_week" -> now_plus(today, 7, 1)
      [] pattern = "cherez_days" -> now_plus(today, int(match.group), 1)
      [] pattern = "cherez_weeks" -> now_plus(today, int(match.group), 7)
      [] OTHER -> Ok(None)

\* the text up to its first period, trimmed
title_of(s) == strip(split(s, 46)[1])

\* the text after its first period, not trimmed
description_untrimmed(s) ==
    IF Len(split(s, 46)) > 1 THEN join(46, Tail(split(s, 46))) ELSE <<>>

\* the text after its first period, trimmed
description_of(s) ==
    IF Len(split(s, 46)) > 1 THEN strip(join(46, Tail(split(s, 46)))) ELSE <<>>

\* the dict priority_indicators, in its insertion order
priority_indicators_low_first ==
    << <<"low", {lo_nizkiy, lo_ne_srochno, lo_kogda, lo_ne_prioritetnaya}>>,
       <<"high", {hi_srochno, hi_srochnaya, hi_vazhno, hi_vazhnaya, hi_vysokiy,
                  hi_prioritetnaya}>> >>

priority_indicators ==
    << <<"high", {hi_srochno, hi_srochnaya, hi_vazhno, hi_vazhnaya, hi_vysokiy,
                  hi_prioritetnaya}>>,
       <<"low", {lo_nizkiy, lo_ne_srochno, lo_kogda, lo_ne_prioritetnaya}>> >>

\* the loop over priority_indicators: the first table with a phrase in the
\* lower-cased text, "medium" when none has
priority_of(s) ==
    LET hits == {k \in 1..Len(priority_indicators) :
                    \E indicator \in priority_indicators[k][2] :
                        Contains(lower(s), indicator)}
    IN  IF hits = {} THEN "medium" ELSE priority_indicators[Min(hits)][1]

\* the body of the loop for the pattern that matched first (the k-th), and
\* due_date None when none matched
due_date_by(k, s, today) ==
    IF k = 0 THEN Ok(None)
    ELSE due_date_for(date_patterns[k], re_search(date_patterns[k], lower(s)), today)

\* return title, description, due_date, priority: reached unless computing
\* the due date raised
return_fields(s, due) ==
    IF due.exc # "None" THEN Raise(due.exc)
    ELSE Ok([title |-> title_of(s),
             description |-> description_of(s),
             due_date |-> due.value,
             priority |-> priority_of(s)])

\* extract_task_info(text) called on day today: the tuple it returns, or the
\* exception it raises
extract_task_info(s, today) ==
    return_fields(s, due_date_by(FirstDatePattern(s), s, today))

\* r'@(\w+)' searched in the raw text: group(1) of the leftmost match, None
\* (the empty sequence) without one
RECURSIVE WordRun(_, _)
WordRun(s, i) ==
    IF i <= Len(s) /\ IsWord(s[i]) THEN 1 + WordRun(s, i + 1) ELSE 0

\* group(1) of the rightmost match instead of the leftmost
extract_user_mention_last(s) ==
    LET at == {i \in 1..Len(s) : s[i] = 64 /\ WordRun(s, i + 1) >= 1}
    IN  IF at = {} THEN None
        ELSE SubSeq(s, Max(at) + 1, Max(at) + WordRun(s, Max(at) + 1))

extract_user_mention(s) ==
    LET at == {i \in 1..Len(s) : s[i] = 64 /\ WordRun(s, i + 1) >= 1}
    IN  IF at = {} THEN None
        ELSE SubSeq(s, Min(at) + 1, Min(at) + WordRun(s, Min(at) + 1))

\* f_dot: "."
f_dot ==
    <<46>>

\* f_space: " "
f_space ==
    <<32>>

\* f_bang: "!"
f_bang ==
    <<33>>

\* f_digit: "7"
f_digit ==
    <<55>>

\* f_otchet: "Отчет"
f_otchet ==
    <<1054, 1090, 1095, 1077, 1090>>

\* f_k_5_marta: "к 5 марта"
f_k_5_marta ==
    <<1082, 32, 53, 32, 1084, 1072, 1088, 1090, 1072>>

\* f_do_12ogo_maya: "до 12ого мая"
f_do_12ogo_maya ==
    <<1076, 1086, 32, 49, 50, 1086, 1075, 1086, 32, 1084, 1072, 1103>>

\* f_do_pyatnitsy: "до пятницы"
f_do_pyatnitsy ==
    <<1076, 1086, 32, 1087, 1103, 1090, 1085, 1080, 1094, 1099>>

\* f_zavtra: "завтра"
f_zavtra ==
    <<1079, 1072, 1074, 1090, 1088, 1072>>

\* f_ZAVTRA: "ЗАВТРА"
f_ZAVTRA ==
    <<1047, 1040, 1042, 1058, 1056, 1040>>

\* f_next_week: "на следующей неделе"
f_next_week ==
    <<1085, 1072, 32, 1089, 1083, 1077, 1076, 1091, 1102, 1097, 1077, 1081, 32, 1085, 1077, 1076,
      1077, 1083, 1077>>

\* f_cherez_3_dnya: "через 3 дня"
f_cherez_3_dnya ==
    <<1095, 1077, 1088, 1077, 1079, 32, 51, 32, 1076, 1085, 1103>>

\* f_cherez_2_nedeli: "через 2 недели"
f_cherez_2_nedeli ==
    <<1095, 1077, 1088, 1077, 1079, 32, 50, 32, 1085, 1077, 1076, 1077, 1083, 1080>>

\* f_cherez_9999999_dney: "через 9999999 дней"
f_cherez_9999999_dney ==
    <<1095, 1077, 1088, 1077, 1079, 32, 57, 57, 57, 57, 57, 57, 57, 32, 1076, 1085, 1077, 1081>>

\* f_cherez_999999999_nedel: "через 999999999 недель"
f_cherez_999999999_nedel ==
    <<1095, 1077, 1088, 1077, 1079, 32, 57, 57, 57, 57, 57, 57, 57, 57, 57, 32, 1085, 1077, 1076,
      1077, 1083, 1100>>

\* f_srochno: "срочно"
f_srochno ==
    <<1089, 1088, 1086, 1095, 1085, 1086>>

\* f_ne_srochno: "не срочно"
f_ne_srochno ==
    <<1085, 1077, 32, 1089, 1088, 1086, 1095, 1085, 1086>>

\* f_nizkiy: "низкий приоритет"
f_nizkiy ==
    <<1085, 1080, 1079, 1082, 1080, 1081, 32, 1087, 1088, 1080, 1086, 1088, 1080, 1090, 1077, 1090>>

\* f_kogda: "когда будет время"
f_kogda ==
    <<1082, 1086, 1075, 1076, 1072, 32, 1073, 1091, 1076, 1077, 1090, 32, 1074, 1088, 1077, 1084,
      1103>>

\* f_ne_prioritetnaya: "не приоритетная"
f_ne_prioritetnaya ==
    <<1085, 1077, 32, 1087, 1088, 1080, 1086, 1088, 1080, 1090, 1077, 1090, 1085, 1072, 1103>>

\* f_Vazhno: "Важно"
f_Vazhno ==
    <<1042, 1072, 1078, 1085, 1086>>

\* f_at: "@"
f_at ==
    <<64>>

\* f_at_ivan: "@ivan"
f_at_ivan ==
    <<64, 105, 118, 97, 110>>

\* ex_report: "Создать задачу: Подготовить отчет к завтрашнему дню. Важно!"
ex_report ==
    <<1057, 1086, 1079, 1076, 1072, 1090, 1100, 32, 1079, 1072, 1076, 1072, 1095, 1091, 58, 32,
      1055, 1086, 1076, 1075, 1086, 1090, 1086, 1074, 1080, 1090, 1100, 32, 1086, 1090, 1095, 1077,
      1090, 32, 1082, 32, 1079, 1072, 1074, 1090, 1088, 1072, 1096, 1085, 1077, 1084, 1091, 32,
      1076, 1085, 1102, 46, 32, 1042, 1072, 1078, 1085, 1086, 33>>

\* ex_report_title: "Создать задачу: Подготовить отчет к завтрашнему дню"
ex_report_title ==
    <<1057, 1086, 1079, 1076, 1072, 1090, 1100, 32, 1079, 1072, 1076, 1072, 1095, 1091, 58, 32,
      1055, 1086, 1076, 1075, 1086, 1090, 1086, 1074, 1080, 1090, 1100, 32, 1086, 1090, 1095, 1077,
      1090, 32, 1082, 32, 1079, 1072, 1074, 1090, 1088, 1072, 1096, 1085, 1077, 1084, 1091, 32,
      1076, 1085, 1102>>

\* ex_report_description: "Важно!"
ex_report_description ==
    <<1042, 1072, 1078, 1085, 1086, 33>>

\* ex_client: "Новая задача: Связаться с клиентом @ivan до пятницы"
ex_client ==
    <<1053, 1086, 1074, 1072, 1103, 32, 1079, 1072, 1076, 1072, 1095, 1072, 58, 32, 1057, 1074,
      1103, 1079, 1072, 1090, 1100, 1089, 1103, 32, 1089, 32, 1082, 1083, 1080, 1077, 1085, 1090,
      1086, 1084, 32, 64, 105, 118, 97, 110, 32, 1076, 1086, 32, 1087, 1103, 1090, 1085, 1080,
      1094, 1099>>

\* ex_dots: "..."
ex_dots ==
    <<46, 46, 46>>

\* ex_bangs: "!!!"
ex_bangs ==
    <<33, 33, 33>>

\* ex_dot_space_dot: ". ."
ex_dot_space_dot ==
    <<46, 32, 46>>

\* ex_two_mentions: "@olga, затем @ivan"
ex_two_mentions ==
    <<64, 111, 108, 103, 97, 44, 32, 1079, 1072, 1090, 1077, 1084, 32, 64, 105, 118, 97, 110>>

\* ex_last_day: "через 2912134 дней"
ex_last_day ==
    <<1095, 1077, 1088, 1077, 1079, 32, 50, 57, 49, 50, 49, 51, 52, 32, 1076, 1085, 1077, 1081>>

\* c_start: "/start"
c_start ==
    <<47, 115, 116, 97, 114, 116>>

\* c_help: "/help"
c_help ==
    <<47, 104, 101, 108, 112>>

\* c_created_tasks: "/created_tasks"
c_created_tasks ==
    <<47, 99, 114, 101, 97, 116, 101, 100, 95, 116, 97, 115, 107, 115>>

\* c_mytasks: "/mytasks"
c_mytasks ==
    <<47, 109, 121, 116, 97, 115, 107, 115>>

\* c_assign: "/assign"
c_assign ==
    <<47, 97, 115, 115, 105, 103, 110>>

\* c_delete: "/delete"
c_delete ==
    <<47, 100, 101, 108, 101, 116, 101>>

\* c_edit: "/edit"
c_edit ==
    <<47, 101, 100, 105, 116>>

\* ph_sozdat_zadachu: "создать задачу"
ph_sozdat_zadachu ==
    <<1089, 1086, 1079, 1076, 1072, 1090, 1100, 32, 1079, 1072, 1076, 1072, 1095, 1091>>

\* ph_novaya_zadacha: "новая задача"
ph_novaya_zadacha ==
    <<1085, 1086, 1074, 1072, 1103, 32, 1079, 1072, 1076, 1072, 1095, 1072>>

\* ph_zadacha: "задача:"
ph_zadacha ==
    <<1079, 1072, 1076, 1072, 1095, 1072, 58>>

\* name_ivan: "ivan"
name_ivan ==
    <<105, 118, 97, 110>>

\* name_olga: "olga"
name_olga ==
    <<111, 108, 103, 97>>

\* t_start: "/start"
t_start ==
    <<47, 115, 116, 97, 114, 116>>

\* t_help: "/help"
t_help ==
    <<47, 104, 101, 108, 112>>

\* t_created_tasks: "/created_tasks"
t_created_tasks ==
    <<47, 99, 114, 101, 97, 116, 101, 100, 95, 116, 97, 115, 107, 115>>

\* t_mytasks: "/mytasks"
t_mytasks ==
    <<47, 109, 121, 116, 97, 115, 107, 115>>

\* t_mytasks_phrase: "/mytasks создать задачу"
t_mytasks_phrase ==
    <<47, 109, 121, 116, 97, 115, 107, 115, 32, 1089, 1086, 1079, 1076, 1072, 1090, 1100, 32, 1079,
      1072, 1076, 1072, 1095, 1091>>

\* t_task: "Задача: отчет @ivan"
t_task ==
    <<1047, 1072, 1076, 1072, 1095, 1072, 58, 32, 1086, 1090, 1095, 1077, 1090, 32, 64, 105, 118,
      97, 110>>

\* t_task_overflow: "Задача: через 9999999 дней"
t_task_overflow ==
    <<1047, 1072, 1076, 1072, 1095, 1072, 58, 32, 1095, 1077, 1088, 1077, 1079, 32, 57, 57, 57, 57,
      57, 57, 57, 32, 1076, 1085, 1077, 1081>>

\* t_assign_olga: "/assign 1 @olga"
t_assign_olga ==
    <<47, 97, 115, 115, 105, 103, 110, 32, 49, 32, 64, 111, 108, 103, 97>>

\* t_assign_short: "/assign 1"
t_assign_short ==
    <<47, 97, 115, 115, 105, 103, 110, 32, 49>>

\* t_assign_phrase: "/assign 1 задача:"
t_assign_phrase ==
    <<47, 97, 115, 115, 105, 103, 110, 32, 49, 32, 1079, 1072, 1076, 1072, 1095, 1072, 58>>

\* t_delete: "/delete 1"
t_delete ==
    <<47, 100, 101, 108, 101, 116, 101, 32, 49>>

\* t_delete_phrase: "/delete 1 задача:"
t_delete_phrase ==
    <<47, 100, 101, 108, 101, 116, 101, 32, 49, 32, 1079, 1072, 1076, 1072, 1095, 1072, 58>>

\* t_edit: "/edit 1 План"
t_edit ==
    <<47, 101, 100, 105, 116, 32, 49, 32, 1055, 1083, 1072, 1085>>

\* t_delete_short: "/delete"
t_delete_short ==
    <<47, 100, 101, 108, 101, 116, 101>>

\* t_edit_short: "/edit 1"
t_edit_short ==
    <<47, 101, 100, 105, 116, 32, 49>>

\* t_edit_phrase: "/edit 1 Новая задача: план"
t_edit_phrase ==
    <<47, 101, 100, 105, 116, 32, 49, 32, 1053, 1086, 1074, 1072, 1103, 32, 1079, 1072, 1076, 1072,
      1095, 1072, 58, 32, 1087, 1083, 1072, 1085>>

\* t_hello: "привет"
t_hello ==
    <<1087, 1088, 1080, 1074, 1077, 1090>>

-----------------------------------------------------------------------------
(* The bot: users, tasks and the dispatch of an incoming message *)

\* the bounds of the model
MaxFrags == 2

Today == 739925

MaxTaskId == 2

MaxVoice == 2

\* message.from_user of the people who write to the bot
TgUsers ==
    {[id |-> 1001, username |-> name_ivan], [id |-> 1002, username |-> name_olga]}

\* message.text of the text messages
Texts ==
    {t_start, t_help, t_created_tasks, t_mytasks, t_mytasks_phrase, t_task,
     t_task_overflow, t_assign_olga, t_assign_short, t_assign_phrase, t_delete,
     t_delete_phrase, t_delete_short, t_edit, t_edit_short, t_edit_phrase,
     t_hello}

\* the text messages sent while a voice message is being processed
TextsBesideVoice == {t_start, t_task}

\* what the recognition service may hear in a voice message
Recognizable == {<<>>, t_task, t_hello}

\* a text message has no voice, a voice message has no text (None is <<>>)
TextMessages ==
    {[from_user |-> u, text |-> t, voice |-> FALSE] : u \in TgUsers, t \in Texts}

VoiceMessages == {[from_user |-> u, text |-> <<>>, voice |-> TRUE] : u \in TgUsers}

Messages == TextMessages \cup VoiceMessages

\* str.split() on whitespace: the words of s
RECURSIVE words(_)
words(s) ==
    LET from == {i \in 1..Len(s) : ~IsSpace(s[i])}
    IN  IF from = {} THEN <<>>
        ELSE LET a == Min(from)
                 ends == {i \in a..Len(s) : IsSpace(s[i])}
                 b == IF ends = {} THEN Len(s) + 1 ELSE Min(ends)
             IN  <<SubSeq(s, a, b - 1)>> \o words(SubSeq(s, b, Len(s)))

\* str.split(maxsplit=n): at most n words are split off, and what follows them
\* (without its leading whitespace) is the last part
RECURSIVE split_max(_, _)
split_max(s, n) ==
    LET from == {i \in 1..Len(s) : ~IsSpace(s[i])}
    IN  IF from = {} THEN <<>>
        ELSE IF n = 0 THEN <<SubSeq(s, Min(from), Len(s))>>
        ELSE LET a == Min(from)
                 ends == {i \in a..Len(s) : IsSpace(s[i])}
                 b == IF ends = {} THEN Len(s) + 1 ELSE Min(ends)
             IN  <<SubSeq(s, a, b - 1)>> \o split_max(SubSeq(s, b, Len(s)), n - 1)

\* str.lstrip('@')
RECURSIVE lstrip_at(_)
lstrip_at(s) == IF s # <<>> /\ s[1] = 64 THEN lstrip_at(Tail(s)) ELSE s

\* the filter Command(name): the first word of the text is the command
Command(command, m) ==
    /\ words(m.text) # <<>>
    /\ words(m.text)[1] = command

\* the filter of create_task: the text holds one of the three phrases
CreateTaskFilter(m) ==
    /\ m.text # <<>>
    /\ \E phrase \in {ph_sozdat_zadachu, ph_novaya_zadacha, ph_zadacha} :
           Contains(lower(m.text), phrase)

\* the handlers with their filters, in the order they are registered
HandlerFilters(m) ==
    << <<"cmd_start", Command(c_start, m)>>,
       <<"cmd_help", Command(c_help, m)>>,
       <<"show_created_tasks", Command(c_created_tasks, m)>>,
       <<"create_task", CreateTaskFilter(m)>>,
       <<"handle_voice", m.voice>>,
       <<"show_my_tasks", Command(c_mytasks, m)>>,
       <<"assign_task", Command(c_assign, m)>>,
       <<"delete_task", Command(c_delete, m)>>,
       <<"edit_task", Command(c_edit, m)>> >>

\* the dispatcher gives a message to the first handler whose filter accepts it
Handler(m) ==
    LET table == HandlerFilters(m)
        hits == {k \in 1..Len(table) : table[k][2]}
    IN  IF hits = {} THEN "none" ELSE table[Min(hits)][1]

\* the handler of every message of the model
HandlerOf == [m \in Messages |-> Handler(m)]

\* db.query(User).filter(User.telegram_id == tid).first(): the user's id, 0
\* for None; a user's id is its place in the table
UserByTelegramId(us, tid) ==
    LET ids == {i \in 1..Len(us) : us[i].telegram_id = tid}
    IN  IF ids = {} THEN 0 ELSE Min(ids)

\* db.query(User).filter(User.username == name).first()
UserByUsername(us, name) ==
    LET ids == {i \in 1..Len(us) : us[i].username = name}
    IN  IF ids = {} THEN 0 ELSE Min(ids)

\* a create without the lookup before it
GetOrCreateUserNoLookup(us, from_user) ==
    Append(us, [telegram_id |-> from_user.id, username |-> from_user.username])

\* the get-or-create of a user for the sender of a message
GetOrCreateUser(us, from_user) ==
    IF UserByTelegramId(us, from_user.id) # 0 THEN us
    ELSE Append(us, [telegram_id |-> from_user.id, username |-> from_user.username])

\* whether a string is a run of digits
AllDigits(s) == s # <<>> /\ \A i \in 1..Len(s) : IsDigit(s[i])

\* db.query(Task).filter(Task.id == task_id).first() for the string task_id:
\* the id of the task found, 0 for None
TaskById(ts, task_id) ==
    IF AllDigits(task_id) /\ int(task_id) \in DOMAIN ts THEN int(task_id) ELSE 0

\* the id the table gives a new row: one more than the largest in use
NextTaskId(ts) == IF DOMAIN ts = {} THEN 1 ELSE Max(DOMAIN ts) + 1

\* a function with one more point
With(f, k, v) == [x \in DOMAIN f \cup {k} |-> IF x = k THEN v ELSE f[x]]

\* a function without one point
Without(f, k) == [x \in DOMAIN f \ {k} |-> f[x]]

\* process_task_creation(message, s): the users and tasks it leaves and the
\* answer it sends. The user is committed before the extraction, so it stays
\* when the extraction raises and the handler answers with its error text.
add_task(us1, ts, from_user, info, assignee_username) ==
    IF info.exc # "None"
    THEN [users |-> us1, tasks |-> ts, reply |-> "creation_error"]
    ELSE [users |-> us1,
          tasks |-> With(ts, NextTaskId(ts),
                         [title |-> info.value.title,
                          description |-> info.value.description,
                          due_date |-> info.value.due_date,
                          priority |-> info.value.priority,
                          assignee_id |-> IF assignee_username = None THEN 0
                                          ELSE UserByUsername(us1, assignee_username),
                          creator_id |-> UserByTelegramId(us1, from_user.id)]),
          reply |-> "task_created"]

process_task_creation(us, ts, from_user, s, today) ==
    add_task(GetOrCreateUser(us, from_user), ts, from_user,
             extract_task_info(s, today), extract_user_mention(s))

-----------------------------------------------------------------------------
(* The handlers. A message waits in inbox until the dispatcher hands it to
   its handler; reply is the answer the last step sent ("none" when it sent
   nothing). *)

nlp_vars == <<text, now, result, mention, again>>

bot_vars == <<users, tasks, inbox, reply, voice, disk, ncalls, creation>>

vars ==
    <<text, now, result, mention, users, tasks, inbox, reply, voice, disk, ncalls,
      creation, again>>

\* process_task_creation is not running; session is "open" from
\* db = next(get_db()) until the handler is done with the database
CreationIdle ==
    [pc |-> "idle", session |-> "none", from_user |-> <<>>, text |-> <<>>,
     info |-> Pending, mention |-> None]

\* no second call of the extractor was made
NotCalledAgain == [now |-> 0, result |-> Pending, mention |-> Pending]

\* no voice message is being processed; fault records what went wrong in
\* convert_voice_to_text, "none" while nothing did
VoiceIdle ==
    [pc |-> "idle", from_user |-> <<>>, call |-> 0,
     ret |-> [is_none |-> TRUE, text |-> <<>>], ffmpeg |-> "none",
     fault |-> "none"]

\* the tables, empty as Base.metadata.create_all leaves them on first start
InitBot ==
    /\ users = <<>>
    /\ tasks = <<>>
    /\ inbox = <<>>
    /\ reply = "none"
    /\ voice = VoiceIdle
    /\ disk = {}
    /\ ncalls = 0
    /\ creation = CreationIdle

\* the extractor's own variables, unused by the bot but for the day
InitNlpIdle ==
    /\ text = <<>>
    /\ result = Pending
    /\ mention = Pending
    /\ again = NotCalledAgain

\* the message the dispatcher is about to hand to handler h
Dispatched(h) == inbox # <<>> /\ HandlerOf[inbox[1]] = h

\* a message arrives
Receive(m) ==
    /\ inbox = <<>>
    /\ HandlerOf[m] = "create_task" => NextTaskId(tasks) <= MaxTaskId
    /\ m.voice => voice.pc = "idle" /\ ncalls < MaxVoice
    /\ inbox' = <<m>>
    /\ reply' = "none"
    /\ UNCHANGED <<users, tasks, voice, disk, ncalls>>
    /\ UNCHANGED <<creation, nlp_vars>>

\* a message no filter accepts is dropped
Unhandled ==
    /\ Dispatched("none")
    /\ inbox' = <<>>
    /\ reply' = "none"
    /\ UNCHANGED <<users, tasks, voice, disk, ncalls>>
    /\ UNCHANGED <<creation, nlp_vars>>

cmd_start ==
    /\ Dispatched("cmd_start")
    /\ users' = GetOrCreateUser(users, inbox[1].from_user)
    /\ reply' = "welcome"
    /\ inbox' = <<>>
    /\ UNCHANGED <<tasks, voice, disk, ncalls>>
    /\ UNCHANGED <<creation, nlp_vars>>

cmd_help ==
    /\ Dispatched("cmd_help")
    /\ reply' = "help"
    /\ inbox' = <<>>
    /\ UNCHANGED <<users, tasks, voice, disk, ncalls>>
    /\ UNCHANGED <<creation, nlp_vars>>

show_created_tasks ==
    /\ Dispatched("show_created_tasks")
    /\ LET user == UserByTelegramId(users, inbox[1].from_user.id)
       IN  reply' = IF user = 0 THEN "no_user"
                    ELSE IF {t \in DOMAIN tasks : tasks[t].creator_id = user} = {}
                         THEN "no_created_tasks"
                         ELSE "created_tasks_list"
    /\ inbox' = <<>>
    /\ UNCHANGED <<users, tasks, voice, disk, ncalls>>
    /\ UNCHANGED <<creation, nlp_vars>>

show_my_tasks ==
    /\ Dispatched("show_my_tasks")
    /\ LET user == UserByTelegramId(users, inbox[1].from_user.id)
       IN  reply' = IF user = 0 THEN "no_user"
                    ELSE IF {t \in DOMAIN tasks : tasks[t].assignee_id = user} = {}
                         THEN "no_assigned_tasks"
                         ELSE "my_tasks_list"
    /\ inbox' = <<>>
    /\ UNCHANGED <<users, tasks, voice, disk, ncalls>>
    /\ UNCHANGED <<creation, nlp_vars>>

create_task ==
    /\ Dispatched("create_task")
    /\ LET done == process_task_creation(users, tasks, inbox[1].from_user,
                                         inbox[1].text, now)
       IN  /\ users' = done.users
           /\ tasks' = done.tasks
           /\ reply' = done.reply
    /\ inbox' = <<>>
    /\ UNCHANGED <<voice, disk, ncalls>>
    /\ UNCHANGED <<creation, nlp_vars>>

\* the ownership check of /assign, /delete and /edit
NotCreatorAlwaysFalse(ts, task, current_user) == FALSE

NotCreator(ts, task, current_user) == ts[task].creator_id # current_user

\* /assign without the check that the assignee is registered
AssignOutcomeAnyAssignee(us, ts, m) ==
    LET args == words(m.text)
        current_user == UserByTelegramId(us, m.from_user.id)
        task == TaskById(ts, args[2])
        assignee == UserByUsername(us, lstrip_at(args[3]))
    IN  IF Len(args) # 3 THEN [tasks |-> ts, reply |-> "bad_format"]
        ELSE IF current_user = 0 THEN [tasks |-> ts, reply |-> "user_not_found"]
        ELSE IF task = 0 THEN [tasks |-> ts, reply |-> "task_not_found"]
        ELSE IF NotCreator(ts, task, current_user)
             THEN [tasks |-> ts, reply |-> "not_creator"]
        ELSE [tasks |-> [ts EXCEPT ![task].assignee_id = assignee],
              reply |-> "task_assigned"]

\* /assign <ID> @username: the tasks it leaves and its answer
AssignOutcome(us, ts, m) ==
    LET args == words(m.text)
        current_user == UserByTelegramId(us, m.from_user.id)
        task == TaskById(ts, args[2])
        assignee == UserByUsername(us, lstrip_at(args[3]))
    IN  IF Len(args) # 3 THEN [tasks |-> ts, reply |-> "bad_format"]
        ELSE IF current_user = 0 THEN [tasks |-> ts, reply |-> "user_not_found"]
        ELSE IF task = 0 THEN [tasks |-> ts, reply |-> "task_not_found"]
        ELSE IF NotCreator(ts, task, current_user)
             THEN [tasks |-> ts, reply |-> "not_creator"]
        ELSE IF assignee = 0 THEN [tasks |-> ts, reply |-> "assignee_not_found"]
        ELSE [tasks |-> [ts EXCEPT ![task].assignee_id = assignee],
              reply |-> "task_assigned"]

assign_task ==
    /\ Dispatched("assign_task")
    /\ LET done == AssignOutcome(users, tasks, inbox[1])
       IN  tasks' = done.tasks /\ reply' = done.reply
    /\ inbox' = <<>>
    /\ UNCHANGED <<users, voice, disk, ncalls>>
    /\ UNCHANGED <<creation, nlp_vars>>

\* /delete <ID>: the tasks it leaves and its answer
DeleteOutcome(us, ts, m) ==
    LET args == split_max(m.text, 1)
        current_user == UserByTelegramId(us, m.from_user.id)
        task == TaskById(ts, args[2])
    IN  IF Len(args) # 2 THEN [tasks |-> ts, reply |-> "bad_format"]
        ELSE IF current_user = 0 THEN [tasks |-> ts, reply |-> "user_not_found"]
        ELSE IF task = 0 THEN [tasks |-> ts, reply |-> "task_not_found"]
        ELSE IF NotCreator(ts, task, current_user)
             THEN [tasks |-> ts, reply |-> "not_creator"]
        ELSE [tasks |-> Without(ts, task), reply |-> "task_deleted"]

delete_task ==
    /\ Dispatched("delete_task")
    /\ LET done == DeleteOutcome(users, tasks, inbox[1])
       IN  tasks' = done.tasks /\ reply' = done.reply
    /\ inbox' = <<>>
    /\ UNCHANGED <<users, voice, disk, ncalls>>
    /\ UNCHANGED <<creation, nlp_vars>>

\* /edit <ID> <new title>: the tasks it leaves and its answer
EditOutcome(us, ts, m) ==
    LET args == split_max(m.text, 2)
        current_user == UserByTelegramId(us, m.from_user.id)
        task == TaskById(ts, args[2])
    IN  IF Len(args) # 3 THEN [tasks |-> ts, reply |-> "bad_format"]
        ELSE IF current_user = 0 THEN [tasks |-> ts, reply |-> "user_not_found"]
        ELSE IF task = 0 THEN [tasks |-> ts, reply |-> "task_not_found"]
        ELSE IF NotCreator(ts, task, current_user)
             THEN [tasks |-> ts, reply |-> "not_creator"]
        ELSE [tasks |-> [ts EXCEPT ![task].title = args[3]],
              reply |-> "task_updated"]

edit_task ==
    /\ Dispatched("edit_task")
    /\ LET done == EditOutcome(users, tasks, inbox[1])
       IN  tasks' = done.tasks /\ reply' = done.reply
    /\ inbox' = <<>>
    /\ UNCHANGED <<users, voice, disk, ncalls>>
    /\ UNCHANGED <<creation, nlp_vars>>

-----------------------------------------------------------------------------
(* handle_voice and convert_voice_to_text, one step per await or call. The
   other handlers may run between the steps. *)

\* the names of the two temporary files of a call
OggFile(call) == <<call, "ogg">>

WavFile(call) == <<call, "wav">>

\* the value convert_voice_to_text returns
ReturnNone == [is_none |-> TRUE, text |-> <<>>]

ReturnText(s) == [is_none |-> FALSE, text |-> s]

\* handle_voice takes the message and answers that it is processing it
handle_voice ==
    /\ Dispatched("handle_voice")
    /\ voice.pc = "idle"
    /\ voice' = [VoiceIdle EXCEPT !.pc = "tempfiles", !.from_user = inbox[1].from_user]
    /\ reply' = "processing"
    /\ inbox' = <<>>
    /\ UNCHANGED <<users, tasks, disk, ncalls>>
    /\ UNCHANGED <<creation, nlp_vars>>

\* convert_voice_to_text: the with statement creates the .ogg and the .wav file
\* (delete=False)
CreateTempFiles ==
    /\ voice.pc = "tempfiles"
    /\ ncalls' = ncalls + 1
    /\ disk' = disk \cup {OggFile(ncalls + 1), WavFile(ncalls + 1)}
    /\ voice' = [voice EXCEPT !.pc = "download", !.call = ncalls + 1]
    /\ reply' = "none"
    /\ UNCHANGED <<users, tasks, inbox>>
    /\ UNCHANGED <<creation, nlp_vars>>

\* await bot.download(voice): when it raises, the outer except returns None;
\* the try whose finally removes the files has not been entered
Download(ok) ==
    /\ voice.pc = "download"
    /\ voice' = IF ok THEN [voice EXCEPT !.pc = "convert"]
                ELSE [voice EXCEPT !.pc = "returned", !.ret = ReturnNone,
                                   !.fault = "download_failed"]
    /\ reply' = "none"
    /\ UNCHANGED <<users, tasks, inbox, disk, ncalls>>
    /\ UNCHANGED <<creation, nlp_vars>>

\* convert_ogg_to_wav without process.kill() on the timeout
convert_ogg_to_wav_no_kill(outcome) ==
    CASE outcome = "exit_zero" -> [ok |-> TRUE, ffmpeg |-> "exited"]
      [] outcome = "exit_nonzero" -> [ok |-> FALSE, ffmpeg |-> "exited"]
      [] outcome = "timeout" -> [ok |-> FALSE, ffmpeg |-> "running"]
      [] outcome = "cannot_start" -> [ok |-> FALSE, ffmpeg |-> "none"]

\* convert_ogg_to_wav: what it returns and what becomes of the ffmpeg process
convert_ogg_to_wav(outcome) ==
    CASE outcome = "exit_zero" -> [ok |-> TRUE, ffmpeg |-> "exited"]
      [] outcome = "exit_nonzero" -> [ok |-> FALSE, ffmpeg |-> "exited"]
      [] outcome = "timeout" -> [ok |-> FALSE, ffmpeg |-> "killed"]
      [] outcome = "cannot_start" -> [ok |-> FALSE, ffmpeg |-> "none"]

\* if not await convert_ogg_to_wav(...): return None, through the finally
Convert(outcome) ==
    /\ voice.pc = "convert"
    /\ LET done == convert_ogg_to_wav(outcome)
       IN  voice' = IF done.ok
                    THEN [voice EXCEPT !.pc = "recognize", !.ffmpeg = done.ffmpeg]
                    ELSE [voice EXCEPT !.pc = "cleanup", !.ffmpeg = done.ffmpeg,
                                       !.ret = ReturnNone, !.fault = outcome]
    /\ reply' = "none"
    /\ UNCHANGED <<users, tasks, inbox, disk, ncalls>>
    /\ UNCHANGED <<creation, nlp_vars>>

\* recognizer.recognize_google: the text heard, or UnknownValueError or
\* RequestError (None is returned), or another exception, which passes the
\* finally and is turned into None by the outer except
Recognize(outcome, heard) ==
    /\ voice.pc = "recognize"
    /\ voice' = IF outcome = "recognized"
                THEN [voice EXCEPT !.pc = "cleanup", !.ret = ReturnText(heard)]
                ELSE [voice EXCEPT !.pc = "cleanup", !.ret = ReturnNone,
                                   !.fault = outcome]
    /\ reply' = "none"
    /\ UNCHANGED <<users, tasks, inbox, disk, ncalls>>
    /\ UNCHANGED <<creation, nlp_vars>>

\* the finally: os.unlink of the .ogg file, then of the .wav file, in one try;
\* when the first raises the second is not run
Cleanup(ogg_ok, wav_ok) ==
    /\ voice.pc = "cleanup"
    /\ disk' = IF ~ogg_ok THEN disk
               ELSE IF ~wav_ok THEN disk \ {OggFile(voice.call)}
               ELSE disk \ {OggFile(voice.call), WavFile(voice.call)}
    /\ voice' = [voice EXCEPT !.pc = "returned"]
    /\ reply' = "none"
    /\ UNCHANGED <<users, tasks, inbox, ncalls>>
    /\ UNCHANGED <<creation, nlp_vars>>

\* handle_voice without the return after the answer: process_task_creation
\* runs on the absent text, registers the sender and fails in the extractor
VoiceNotRecognizedFallsThrough ==
    /\ voice.pc = "returned"
    /\ voice.ret.text = <<>>
    /\ voice' = VoiceIdle
    /\ users' = GetOrCreateUser(users, voice.from_user)
    /\ reply' = "creation_error"
    /\ UNCHANGED <<tasks, inbox, disk, ncalls>>
    /\ UNCHANGED <<creation, nlp_vars>>

\* handle_voice after convert_voice_to_text returned: without a text it
\* answers that it could not recognize the message
VoiceNotRecognized ==
    /\ voice.pc = "returned"
    /\ voice.ret.text = <<>>
    /\ voice' = VoiceIdle
    /\ reply' = "not_recognized"
    /\ UNCHANGED <<users, tasks, inbox, disk, ncalls>>
    /\ UNCHANGED <<creation, nlp_vars>>

\* handle_voice after convert_voice_to_text returned a text: it creates the
\* task from it
VoiceCreateTask ==
    /\ voice.pc = "returned"
    /\ voice.ret.text # <<>>
    /\ NextTaskId(tasks) <= MaxTaskId
    /\ LET done == process_task_creation(users, tasks, voice.from_user,
                                         voice.ret.text, now)
       IN  /\ users' = done.users
           /\ tasks' = done.tasks
           /\ reply' = done.reply
    /\ voice' = VoiceIdle
    /\ UNCHANGED <<inbox, disk, ncalls>>
    /\ UNCHANGED <<creation, nlp_vars>>

-----------------------------------------------------------------------------
(* process_task_creation of a text message, one step per group of statements:
   it has no await between them, so no other handler runs in between. *)

\* db = next(get_db()) opens the session; the sender is looked up and, when
\* new, added and committed
OpenSessionGetUser ==
    /\ Dispatched("create_task")
    /\ creation.pc = "idle"
    /\ users' = GetOrCreateUser(users, inbox[1].from_user)
    /\ creation' = [CreationIdle EXCEPT !.pc = "extract", !.session = "open",
                                        !.from_user = inbox[1].from_user,
                                        !.text = inbox[1].text]
    /\ inbox' = <<>>
    /\ reply' = "none"
    /\ UNCHANGED <<tasks, voice, disk, ncalls>>
    /\ UNCHANGED nlp_vars

\* task_info = extract_task_info(text); assignee_username =
\* extract_user_mention(text)
ExtractFields ==
    /\ creation.pc = "extract"
    /\ creation' = [creation EXCEPT !.pc = "store",
                                    !.info = extract_task_info(creation.text, now),
                                    !.mention = extract_user_mention(creation.text)]
    /\ reply' = "none"
    /\ UNCHANGED <<users, tasks, inbox, voice, disk, ncalls>>
    /\ UNCHANGED nlp_vars

\* the assignee is looked up, the task added and committed and the answer
\* sent; after an error of the extraction the except clause answers instead
StoreTask ==
    /\ creation.pc = "store"
    /\ LET done == add_task(users, tasks, creation.from_user, creation.info,
                            creation.mention)
       IN  /\ tasks' = done.tasks
           /\ reply' = done.reply
    /\ creation' = CreationIdle
    /\ UNCHANGED <<users, inbox, voice, disk, ncalls>>
    /\ UNCHANGED nlp_vars

Init == InitBot /\ InitNlpIdle /\ now = Today

\* the bot handling text messages
Next ==
    \/ \E m \in TextMessages : Receive(m)
    \/ Unhandled
    \/ cmd_start
    \/ cmd_help
    \/ show_created_tasks
    \/ create_task
    \/ show_my_tasks
    \/ assign_task
    \/ delete_task
    \/ edit_task

Spec == Init /\ [][Next]_vars

\* the bot handling voice messages, and /start and task texts beside them
NextVoice ==
    \/ \E m \in VoiceMessages : Receive(m)
    \/ \E m \in TextMessages : m.text \in TextsBesideVoice /\ Receive(m)
    \/ cmd_start
    \/ create_task
    \/ handle_voice
    \/ CreateTempFiles
    \/ \E ok \in BOOLEAN : Download(ok)
    \/ \E outcome \in {"exit_zero", "exit_nonzero", "timeout", "cannot_start"} :
          Convert(outcome)
    \/ \E outcome \in {"recognized", "unknown_value", "request_error", "other_error"},
          heard \in Recognizable : Recognize(outcome, heard)
    \/ \E ogg_ok \in BOOLEAN, wav_ok \in BOOLEAN : Cleanup(ogg_ok, wav_ok)
    \/ VoiceNotRecognized
    \/ VoiceCreateTask

SpecVoice == Init /\ [][NextVoice]_vars

\* the bot handling /start and creation messages, process_task_creation
\* taken step by step
NextCreate ==
    \/ \E m \in TextMessages :
          HandlerOf[m] \in {"cmd_start", "create_task"} /\ Receive(m)
    \/ creation.pc = "idle" /\ cmd_start
    \/ OpenSessionGetUser
    \/ ExtractFields
    \/ StoreTask

SpecCreate == Init /\ [][NextCreate]_vars

-----------------------------------------------------------------------------
(* The inputs of the extractor: every concatenation of at most MaxFrags
   fragments of the vocabulary, and the example sentences. *)

Vocabulary ==
    {f_dot, f_space, f_bang, f_digit, f_otchet, f_k_5_marta, f_do_12ogo_maya,
     f_do_pyatnitsy, f_zavtra, f_ZAVTRA, f_next_week, f_cherez_3_dnya,
     f_cherez_2_nedeli, f_cherez_9999999_dney, f_cherez_999999999_nedel,
     f_srochno, f_ne_srochno, f_nizkiy, f_kogda, f_ne_prioritetnaya, f_Vazhno,
     f_at, f_at_ivan}

Examples ==
    {ex_report, ex_client, ex_dots, ex_bangs, ex_dot_space_dot, ex_two_mentions,
     ex_last_day}

RECURSIVE Concatenations(_)
Concatenations(n) ==
    IF n = 0 THEN {<<>>}
    ELSE LET shorter == Concatenations(n - 1)
         IN  shorter \cup {s \o f : s \in shorter, f \in Vocabulary}

Inputs == Concatenations(MaxFrags) \cup Examples

Nows == {Today, Today + 1}

-----------------------------------------------------------------------------
(* The extractor called on one input *)

InitNlp ==
    /\ text \in Inputs
    /\ now \in Nows
    /\ result = Pending
    /\ mention = Pending
    /\ again = NotCalledAgain
    /\ InitBot

\* title, description, due_date, priority = extract_task_info(text)
CallExtractTaskInfo ==
    /\ result = Pending
    /\ result' = extract_task_info(text, now)
    /\ UNCHANGED <<text, now, mention, again>>
    /\ UNCHANGED bot_vars

\* assignee_username = extract_user_mention(text)
CallExtractUserMention ==
    /\ mention = Pending
    /\ mention' = Ok(extract_user_mention(text))
    /\ UNCHANGED <<text, now, result, again>>
    /\ UNCHANGED bot_vars

\* both functions are called a second time on the same text, the same day or
\* a later one
CallAgain(later) ==
    /\ result # Pending
    /\ mention # Pending
    /\ again = NotCalledAgain
    /\ again' = [now |-> later,
                 result |-> extract_task_info(text, later),
                 mention |-> Ok(extract_user_mention(text))]
    /\ UNCHANGED <<text, now, result, mention>>
    /\ UNCHANGED bot_vars

NextNlp ==
    \/ CallExtractTaskInfo
    \/ CallExtractUserMention
    \/ \E later \in {now, now + 1} : CallAgain(later)

SpecNlp == InitNlp /\ [][NextNlp]_vars

-----------------------------------------------------------------------------
(* Properties of the extractor, checked under SpecNlp *)

Returned == result.exc = "None"

\* the lower-cased text matches one of the two day+month patterns
DayMonthMatches ==
    \/ re_search("k_day_month", lower(text)).found
    \/ re_search("do_day_month", lower(text)).found

\* C1: for every input text, the title extract_task_info returns is a
\* non-empty string.
C1_TitleNonEmpty == Returned => result.value.title # <<>>

\* C2: extract_task_info never fails: for every input it returns a result and
\* raises no error.
C2_NeverRaises == result.exc \in {"pending", "None"}

\* C3 as stated: the example sentence gives its first sentence as the title,
\* 'Важно!' as the description, priority high, and no due date.
C3_ExampleNoDueDate ==
    (text = ex_report /\ result # Pending) =>
        result = Ok([title |-> ex_report_title,
                     description |-> ex_report_description,
                     due_date |-> None,
                     priority |-> "high"])

\* C3 as amended: the example sentence gives its first sentence as the title,
\* 'Важно!' as the description, priority high, and the due date now + 1 day
\* ('завтра' is found inside 'завтрашнему').
C3_ExampleDueTomorrow ==
    (text = ex_report /\ result # Pending) =>
        result = Ok([title |-> ex_report_title,
                     description |-> ex_report_description,
                     due_date |-> <<now + 1>>,
                     priority |-> "high"])

C3_Witness == text = ex_report /\ Returned

\* '.', '!' and '@' are the punctuation characters of the vocabulary
IsPunctuation(c) == c \in {33, 46, 64}

PunctuationOnly(s) ==
    /\ \E i \in 1..Len(s) : IsPunctuation(s[i])
    /\ \A i \in 1..Len(s) : IsPunctuation(s[i]) \/ IsSpace(s[i])

\* C4: an input of punctuation only gives a title equal to the trimmed input,
\* an empty description, no due date and priority medium.
C4_PunctuationOnly ==
    (PunctuationOnly(text) /\ result # Pending) =>
        result = Ok([title |-> strip(text),
                     description |-> <<>>,
                     due_date |-> None,
                     priority |-> "medium"])

\* what the patterns give when taken in the listed order, written out
DueInListedOrder ==
    LET s == lower(text)
    IN  IF DayMonthMatches THEN Ok(None)
        ELSE IF Contains(s, re_zavtra) THEN Ok(<<now + 1>>)
        ELSE IF Contains(s, re_next_week) THEN Ok(<<now + 7>>)
        ELSE IF re_search("cherez_days", s).found
             THEN now_plus(now, int(re_search("cherez_days", s).group), 1)
        ELSE IF re_search("cherez_weeks", s).found
             THEN now_plus(now, int(re_search("cherez_weeks", s).group), 7)
        ELSE Ok(None)

\* C8: the date patterns are tried in their listed order and only the first
\* that matches decides due_date, wherever the phrases stand in the text: a
\* day+month match leaves due_date absent, and 'завтра' wins over 'на
\* следующей неделе' and 'через N ...'.
C8_FirstListedPatternGoverns ==
    result # Pending =>
        IF DueInListedOrder.exc # "None" THEN result.exc = DueInListedOrder.exc
        ELSE Returned /\ result.value.due_date = DueInListedOrder.value

\* a day+month phrase and 'завтра' both occur, and no due date came back
C8_Witness ==
    /\ DayMonthMatches
    /\ Contains(lower(text), re_zavtra)
    /\ Returned
    /\ result.value.due_date = None

\* s holds the word w (given in lower case) in some mix of letter cases
ContainsAnyCase(s, w) ==
    \E i \in 1..(Len(s) - Len(w) + 1) :
        \A k \in 1..Len(w) : s[i + k - 1] = w[k] \/ s[i + k - 1] + 32 = w[k]

\* C9: an input that holds 'завтра' in any letter case and matches neither
\* day+month pattern gets due_date = now + 1 day.
C9_TomorrowIsNowPlusOne ==
    (result # Pending /\ ContainsAnyCase(text, re_zavtra) /\ ~DayMonthMatches) =>
        Returned /\ result.value.due_date = <<now + 1>>

\* 'завтра' in upper case, alone among the date phrases
C9_Witness ==
    /\ Contains(text, f_ZAVTRA)
    /\ ~DayMonthMatches
    /\ Returned
    /\ result.value.due_date = <<now + 1>>

HighPhrases ==
    {hi_srochno, hi_srochnaya, hi_vazhno, hi_vazhnaya, hi_vysokiy, hi_prioritetnaya}

LowPhrases == {lo_nizkiy, lo_ne_srochno, lo_kogda, lo_ne_prioritetnaya}

HasPhrase(phrases) == \E w \in phrases : ContainsAnyCase(text, w)

\* C10: priority is high whenever the lower-cased input holds a high-priority
\* phrase (also beside a low-priority one), low when it holds a low-priority
\* phrase and no high-priority one, and medium when it holds neither.
C10_PriorityPrecedence ==
    Returned =>
        result.value.priority =
            IF HasPhrase(HighPhrases) THEN "high"
            ELSE IF HasPhrase(LowPhrases) THEN "low"
            ELSE "medium"

\* a high-priority and a low-priority phrase in one input
C10_Witness ==
    /\ HasPhrase(HighPhrases)
    /\ HasPhrase(LowPhrases)
    /\ Returned
    /\ result.value.priority = "high"

NoPeriod(s) == \A i \in 1..Len(s) : s[i] # 46

\* t is s without its leading and trailing whitespace
IsTrimmed(s, t) ==
    /\ t = <<>> \/ (~IsSpace(t[1]) /\ ~IsSpace(t[Len(t)]))
    /\ \E a \in 0..Len(s) :
         /\ a + Len(t) <= Len(s)
         /\ SubSeq(s, a + 1, a + Len(t)) = t
         /\ \A i \in 1..Len(s) : (i <= a \/ i > a + Len(t)) => IsSpace(s[i])

\* C11: for every input without a period character, extract_task_info
\* returns the title equal to the input without its leading and trailing
\* whitespace, and the empty description.
C11_NoPeriodTitleIsInput ==
    (NoPeriod(text) /\ result # Pending) =>
        /\ Returned
        /\ IsTrimmed(text, result.value.title)
        /\ result.value.description = <<>>

\* what remains of C11 on the calls that return
NoPeriodWhenReturned ==
    (NoPeriod(text) /\ Returned) =>
        /\ IsTrimmed(text, result.value.title)
        /\ result.value.description = <<>>

\* the positions of the text where '@' stands before a word character
MentionStarts ==
    {i \in 1..Len(text) : text[i] = 64 /\ i < Len(text) /\ IsWord(text[i + 1])}

\* m is the longest run of word characters of the text after position i
WordsAfter(i, m) ==
    /\ Len(m) >= 1
    /\ i + Len(m) <= Len(text)
    /\ SubSeq(text, i + 1, i + Len(m)) = m
    /\ \A k \in 1..Len(m) : IsWord(m[k])
    /\ i + Len(m) = Len(text) \/ ~IsWord(text[i + Len(m) + 1])

\* C12: extract_user_mention returns the word characters that follow the
\* first '@' standing before a word character, whatever mentions come later,
\* and None when the text has no such '@'; for the example sentence
\* 'Новая задача: Встретиться с клиентом @ivan до пятницы' it returns 'ivan',
\* and extract_task_info returns no due date for that sentence.
C12_FirstMention ==
    /\ mention # Pending =>
          /\ mention.exc = "None"
          /\ IF MentionStarts = {} THEN mention.value = None
             ELSE \E i \in MentionStarts :
                    /\ \A j \in MentionStarts : i <= j
                    /\ WordsAfter(i, mention.value)
    /\ (text = ex_client /\ mention # Pending) => mention.value = name_ivan
    /\ (text = ex_client /\ result # Pending) =>
          Returned /\ result.value.due_date = None

\* a text with two different mentions: the first one is returned
C12_Witness == text = ex_two_mentions /\ mention = Ok(name_olga)

\* C19: every phrase of the low-priority table ('низкий приоритет',
\* 'не срочно', 'когда будет время', 'не приоритетная'), given as the only
\* priority wording of an input, gives priority low.
C19_LowPhraseAloneIsLow ==
    \A w \in LowPhrases :
        (text = w /\ result # Pending) =>
            Returned /\ result.value.priority = "low"

\* C15: two calls on the same input agree: both raise the same error, or
\* both return, with the same title, description and priority and with no due
\* date both times or a due date at the same offset from the day of its own
\* call; extract_user_mention returns the same value both times.
C15_SecondCallAgrees ==
    again # NotCalledAgain =>
        /\ again.mention = mention
        /\ again.result.exc = result.exc
        /\ Returned =>
              /\ again.result.value.title = result.value.title
              /\ again.result.value.description = result.value.description
              /\ again.result.value.priority = result.value.priority
              /\ IF result.value.due_date = None
                 THEN again.result.value.due_date = None
                 ELSE /\ again.result.value.due_date # None
                      /\ again.result.value.due_date[1] - again.now
                           = result.value.due_date[1] - now

-----------------------------------------------------------------------------
(* Properties of the handlers, checked under Spec *)

\* the step deleted task t or changed its title or its assignee
TaskTouched(t) ==
    \/ t \notin DOMAIN tasks'
    \/ tasks'[t].title # tasks[t].title
    \/ tasks'[t].assignee_id # tasks[t].assignee_id

\* the step handles an /assign, /edit or /delete command sent by user u
CommandFrom(u) ==
    /\ inbox # <<>>
    /\ inbox' = <<>>
    /\ HandlerOf[inbox[1]] \in {"assign_task", "edit_task", "delete_task"}
    /\ u # 0
    /\ UserByTelegramId(users, inbox[1].from_user.id) = u

\* C5: a task's title or assignee is changed, or the task deleted, only by an
\* /assign, /edit or /delete command whose sender is the user that created the
\* task; a command from any other user leaves the task as it was.
C5_OnlyCreatorChangesTask ==
    [][\A t \in DOMAIN tasks : TaskTouched(t) => CommandFrom(tasks[t].creator_id)]_vars

\* a command on a task of another user's was refused, the task still there
C5_Witness ==
    /\ reply = "not_creator"
    /\ Len(users) = 2
    /\ tasks # <<>>

\* the message is one of the four commands, with any arguments
IsCommand(m) ==
    /\ words(m.text) # <<>>
    /\ words(m.text)[1] \in {c_edit, c_assign, c_delete, c_mytasks}

\* the message is '/edit <ID> <new title>' for an existing task, sent by the
\* user that created the task
EditByCreator(m) ==
    /\ words(m.text)[1] = c_edit
    /\ Len(split_max(m.text, 2)) = 3
    /\ TaskById(tasks, split_max(m.text, 2)[2]) # 0
    /\ UserByTelegramId(users, m.from_user.id) # 0
    /\ UserByTelegramId(users, m.from_user.id)
           = tasks[TaskById(tasks, split_max(m.text, 2)[2])].creator_id

\* C7: an /edit, /assign, /delete or /mytasks message is handled by the
\* handler of that command and never creates a new task, whatever its
\* arguments are; /edit sent by the creator of an existing task sets that
\* task's title to the new title given.
C7_CommandNeverCreatesTask ==
    [][(inbox # <<>> /\ inbox' = <<>> /\ IsCommand(inbox[1])) =>
          /\ HandlerOf[inbox[1]] \in
                 {"edit_task", "assign_task", "delete_task", "show_my_tasks"}
          /\ DOMAIN tasks' \subseteq DOMAIN tasks
          /\ EditByCreator(inbox[1]) =>
                 tasks'[TaskById(tasks, split_max(inbox[1].text, 2)[2])].title
                    = split_max(inbox[1].text, 2)[3]]_vars

\* the arguments of an /assign, /edit or /delete command as its handler
\* splits them
ArgsOf(m) ==
    CASE HandlerOf[m] = "assign_task" -> words(m.text)
      [] HandlerOf[m] = "delete_task" -> split_max(m.text, 1)
      [] HandlerOf[m] = "edit_task" -> split_max(m.text, 2)

\* the handler of m refuses it: wrong number of arguments, sender not
\* registered, no task of that id, sender not its creator, or for /assign no
\* user of that username
Rejected(m) ==
    \/ Len(ArgsOf(m)) # (IF HandlerOf[m] = "delete_task" THEN 2 ELSE 3)
    \/ UserByTelegramId(users, m.from_user.id) = 0
    \/ TaskById(tasks, ArgsOf(m)[2]) = 0
    \/ tasks[TaskById(tasks, ArgsOf(m)[2])].creator_id
          # UserByTelegramId(users, m.from_user.id)
    \/ /\ HandlerOf[m] = "assign_task"
       /\ UserByUsername(users, lstrip_at(ArgsOf(m)[3])) = 0

\* C18: an /assign, /edit or /delete command that its handler refuses (wrong
\* argument count, sender not registered, task id not found, sender not the
\* creator, or for /assign an unknown assignee) leaves the tasks, with their
\* titles and assignees, and the users unchanged.
C18_RejectedCommandChangesNothing ==
    [][(/\ inbox # <<>>
        /\ inbox' = <<>>
        /\ HandlerOf[inbox[1]] \in {"assign_task", "edit_task", "delete_task"}
        /\ Rejected(inbox[1]))
       => (tasks' = tasks /\ users' = users)]_vars

\* an /assign to an unregistered username was refused and the task keeps the
\* assignee it had
C18_Witness ==
    /\ reply = "assignee_not_found"
    /\ \E t \in DOMAIN tasks : tasks[t].assignee_id # 0

-----------------------------------------------------------------------------
(* Properties of process_task_creation, checked under SpecCreate *)

\* C14: no database session is held open across the extraction:
\* extract_task_info and extract_user_mention do not run between the opening
\* of the message's session and its commit or close.
C14_NoSessionAcrossExtraction ==
    creation.pc = "extract" => creation.session # "open"

\* the steps together do what process_task_creation does
StepsAreProcessTaskCreation ==
    [][(creation.pc = "store" /\ creation'.pc = "idle") =>
          /\ tasks' = add_task(users, tasks, creation.from_user,
                               extract_task_info(creation.text, now),
                               extract_user_mention(creation.text)).tasks
          /\ users' = users]_vars

-----------------------------------------------------------------------------
(* Properties of the voice pipeline, checked under SpecVoice *)

\* C6: after convert_voice_to_text returns, on every exit path, neither of
\* the two temporary files it created remains on disk.
C6_NoTempFileRemains ==
    voice.pc = "returned" =>
        disk \cap {OggFile(voice.call), WavFile(voice.call)} = {}

\* C13: convert_voice_to_text fails soft. When the download fails, when the
\* conversion process times out, exits with a nonzero status or cannot be
\* started, or when the recognition reports unintelligible speech, a service
\* error or any other error, the call goes on to return None and no exception
\* leaves it; on the timeout the conversion process has been killed.
C13_FailsSoft ==
    /\ voice.fault # "none" =>
          /\ voice.pc \in {"cleanup", "returned"}
          /\ voice.ret = ReturnNone
    /\ voice.fault = "timeout" => voice.ffmpeg = "killed"

\* the call returned None after the conversion timed out
C13_Witness ==
    /\ voice.pc = "returned"
    /\ voice.fault = "timeout"
    /\ voice.ret.is_none

\* C16: after any sequence of /start messages and task-creation messages,
\* written or spoken, the users table holds at most one row per Telegram
\* identity.
C16_OneUserPerTelegramId ==
    \A i, j \in 1..Len(users) :
        users[i].telegram_id = users[j].telegram_id => i = j

\* one sender was looked up three times (a message for the first row, one for
\* each task) and has one row
C16_Witness ==
    /\ Len(users) = 1
    /\ DOMAIN tasks = {1, 2}

\* the step ends handle_voice after convert_voice_to_text returned
VoiceHandled == voice.pc = "returned" /\ voice'.pc = "idle"

\* C17: when convert_voice_to_text returns no text, handle_voice creates no
\* task and registers nobody (process_task_creation is not called) and the
\* sender gets the one 'could not recognize' answer; a task is created from a
\* voice message only after a non-empty transcription was obtained.
C17_NoTextNoTask ==
    [][/\ (VoiceHandled /\ voice.ret.is_none) =>
              /\ tasks' = tasks
              /\ users' = users
              /\ reply' = "not_recognized"
       /\ (VoiceHandled /\ tasks' # tasks) =>
              /\ ~voice.ret.is_none
              /\ voice.ret.text # <<>>]_vars

\* an unregistered sender's voice message was not recognized
C17_Witness ==
    /\ reply = "not_recognized"
    /\ ncalls >= 1
    /\ users = <<>>

====
